---------------------------- MODULE Spec2Model ----------------------------
(***************************************************************************)
(* A model of the crypto-rate monitor: the retry-protected acquisition of  *)
(* P2P offers (binance_p2p.py), the construction and persistence of one    *)
(* sample per tick (cripto_data.py), and the hourly-window trend analysis  *)
(* with its Telegram alert (analisis_tendencias.py, telegram_notifier.py). *)
(*                                                                         *)
(* Conventions.                                                            *)
(*  - Python's None / a value is an option: None == <<>>, Some(x) == <<x>>.*)
(*  - Prices are integers in hundredths (centavos); a percentage or a mean *)
(*    is an exact rational <<numerator, denominator>> in lowest terms with *)
(*    a positive denominator.  IEEE-754 rounding error is abstracted.      *)
(*  - A datetime is an integer number of minutes; the "%Y-%m-%d %H:%M:%S"  *)
(*    strings compare as the instants they denote.                         *)
(***************************************************************************)
EXTENDS Integers, Sequences, FiniteSets, TLC

VARIABLES
    f_in, f_out,        \* one call of obtener_ofertas_p2p_binance: arguments, result
    s_in, s_out,        \* one call of obtener_datos_cripto: environment, result
    a_in, a_out,        \* one call of detectar_tendencia_significativa
    r_in, r_out,        \* one run of analizar_tendencias
    p_in, p_out,        \* one call of a pure function: arguments, result
    pc, store, now, lastTick   \* the service of cripto_data.py __main__

vars == <<f_in, f_out, s_in, s_out, a_in, a_out, r_in, r_out, p_in, p_out,
          pc, store, now, lastTick>>

-----------------------------------------------------------------------------
(* Options and small helpers *)

None == <<>>

Some(x) == <<x>>

IsNone(o) == o = <<>>

Abs(x) == IF x < 0 THEN -x ELSE x

Min(a, b) == IF a <= b THEN a ELSE b

RECURSIVE GCD(_, _)
GCD(a, b) == IF b = 0 THEN a ELSE GCD(b, a % b)

(* The rational n/d (d # 0) in lowest terms with a positive denominator. *)
Rat(n, d) ==
    LET g == GCD(Abs(n), Abs(d))
        s == IF d < 0 THEN -1 ELSE 1
    IN  <<(s * n) \div g, (s * d) \div g>>

RatInt(n) == <<n, 1>>

RatSub(a, b) == Rat(a[1] * b[2] - b[1] * a[2], a[2] * b[2])

RatAdd(a, b) == Rat(a[1] * b[2] + b[1] * a[2], a[2] * b[2])

RatMul(a, b) == Rat(a[1] * b[1], a[2] * b[2])

RatDiv(a, b) == Rat(a[1] * b[2], a[2] * b[1])

RatAbs(a) == <<Abs(a[1]), a[2]>>

RatGE(a, b) == a[1] * b[2] >= b[1] * a[2]

RatGT(a, b) == a[1] * b[2] > b[1] * a[2]

RatIsZero(a) == a[1] = 0

(* Python's round() of the exact quotient n/d (d > 0) to an integer: to the  *)
(* nearest, a tie to the even neighbour.                                   *)
RoundDiv(n, d) ==
    LET q == n \div d
        r == n % d
    IN  IF 2 * r < d THEN q
        ELSE IF 2 * r > d THEN q + 1
        ELSE IF q % 2 = 0 THEN q ELSE q + 1

RECURSIVE SumPrecio(_)
SumPrecio(s) == IF s = <<>> THEN 0 ELSE Head(s).precio + SumPrecio(Tail(s))

-----------------------------------------------------------------------------
(* binance_p2p.py *)

(* The default of the max_retries parameter, which no caller overrides. *)
MAX_RETRIES == 3

(* The default of the retry_delay parameter, in seconds; no caller overrides it. *)
RETRY_DELAY == 60

(* The default of num_ofertas, and the page_size both callers pass. *)
NUM_OFERTAS == 10

(* One response of the Binance endpoint to requests.post:                  *)
(*   kind "exc"  the request raised (transport error),                     *)
(*   kind "http" a status code other than 200,                             *)
(*   kind "ok"   status 200 whose body lists the advertisements in data.   *)
Response(kind, data) == [kind |-> kind, data |-> data]

(* Lines 86-99: each advertisement becomes an offer keeping its price. The *)
(* other columns never influence control flow and are left out.            *)
RECURSIVE ExtraerOfertas(_)
ExtraerOfertas(data) ==
    IF data = <<>> THEN <<>>
    ELSE <<[precio |-> Head(data).price]>> \o ExtraerOfertas(Tail(data))

RECURSIVE InsertarOrdenado(_, _, _)
InsertarOrdenado(o, s, ascending) ==
    IF s = <<>> THEN <<o>>
    ELSE IF (ascending /\ o.precio <= Head(s).precio)
            \/ (~ascending /\ o.precio >= Head(s).precio)
         THEN <<o>> \o s
         ELSE <<Head(s)>> \o InsertarOrdenado(o, Tail(s), ascending)

(* df.sort_values(by='precio', ascending=...) on a frame that has the column. *)
RECURSIVE SortValues(_, _)
SortValues(ofertas, ascending) ==
    IF ofertas = <<>> THEN <<>>
    ELSE InsertarOrdenado(Head(ofertas), SortValues(Tail(ofertas), ascending), ascending)

(* pd.DataFrame([]) has no columns at all, so sort_values(by='precio') on it *)
(* raises KeyError('precio'); the frame of a non-empty list has the column.  *)
SortRaises(ofertas) == Len(ofertas) = 0

(* Variant of the attempt that sorts ascending whatever the trade type. *)
Intento_siempre_ascendente(trade_type, resp) ==
    IF resp.kind # "ok" THEN [ok |-> FALSE, df |-> None, raw |-> None]
    ELSE LET ofertas == ExtraerOfertas(resp.data)
         IN  IF SortRaises(ofertas)
             THEN [ok |-> FALSE, df |-> None, raw |-> None]
             ELSE [ok |-> TRUE, df |-> Some(SortValues(ofertas, TRUE)),
                   raw |-> Some(resp.data)]

(* The body of the try block for one attempt (lines 73-118): ok = TRUE     *)
(* means the return at line 112 was reached; ok = FALSE means the attempt  *)
(* fell through to line 120, by the else branch (non-200) or by the except *)
(* clause, which catches every exception raised inside the try.            *)
Intento(trade_type, resp) ==
    IF resp.kind = "exc" THEN [ok |-> FALSE, df |-> None, raw |-> None]
    ELSE IF resp.kind # "ok" THEN [ok |-> FALSE, df |-> None, raw |-> None]
    ELSE LET ofertas == ExtraerOfertas(resp.data)
         IN  IF SortRaises(ofertas)
             THEN [ok |-> FALSE, df |-> None, raw |-> None]
             ELSE [ok |-> TRUE,
                   df |-> Some(SortValues(ofertas, trade_type = "BUY")),
                   raw |-> Some(resp.data)]

(* Variants of the loop guard: one attempt too few, one too many. *)
QuedanIntentos_uno_menos(retry_count, max_retries) == retry_count < max_retries - 1

QuedanIntentos_uno_mas(retry_count, max_retries) == retry_count <= max_retries

(* Line 72: the guard of the retry loop. *)
QuedanIntentos(retry_count, max_retries) == retry_count < max_retries

(* Variant that sleeps after every failed attempt. *)
EsperaTrasFallo_siempre(retry_count, max_retries) == retry_count <= max_retries

(* The entries of a call's log: a request (line 76), a wait (line 125). *)
Post == [op |-> "post", espera |-> 0]

Sleep(retry_delay) == [op |-> "sleep", espera |-> retry_delay]

NumPosts(log) == Len(SelectSeq(log, LAMBDA e : e.op = "post"))

NumSleeps(log) == Len(SelectSeq(log, LAMBDA e : e.op = "sleep"))

(* Lines 123-127: after a failed attempt, sleep only if another follows. *)
EsperaTrasFallo(retry_count, max_retries) == retry_count < max_retries

(* Lines 71-130.  source[i] is the response the endpoint gives to the i-th *)
(* request of this call.  log lists the call's requests and waits in       *)
(* order.                                                                  *)
RECURSIVE BucleReintentos(_, _, _, _, _)
BucleReintentos(trade_type, max_retries, source, retry_count, log) ==
    IF QuedanIntentos(retry_count, max_retries)
    THEN LET r == Intento(trade_type, source[NumPosts(log) + 1])
         IN  IF r.ok
             THEN [df |-> r.df, raw |-> r.raw, log |-> Append(log, Post)]
             ELSE BucleReintentos(trade_type, max_retries, source, retry_count + 1,
                      IF EsperaTrasFallo(retry_count + 1, max_retries)
                      THEN log \o <<Post, Sleep(RETRY_DELAY)>>
                      ELSE Append(log, Post))
    ELSE [df |-> None, raw |-> None, log |-> log]

obtener_ofertas_p2p_binance(trade_type, max_retries, source) ==
    BucleReintentos(trade_type, max_retries, source, 0, <<>>)

(* Variant that averages the whole frame, without head(num_ofertas). *)
calcular_precio_promedio_sin_head(df, num_ofertas) ==
    IF IsNone(df) \/ Len(df[1]) = 0 THEN 0
    ELSE RoundDiv(SumPrecio(df[1]), Len(df[1]))

(* Lines 132-151; df is an option, the price average in hundredths. *)
calcular_precio_promedio(df, num_ofertas) ==
    IF IsNone(df) \/ Len(df[1]) = 0 THEN 0
    ELSE LET n == Min(num_ofertas, Len(df[1]))
         IN  RoundDiv(SumPrecio(SubSeq(df[1], 1, n)), n)

-----------------------------------------------------------------------------
(* bitcoin_value.py *)

(* Lines 12-38.  The CoinGecko response: kind as above, data the price in  *)
(* thousandths of a dollar (0 when the body lacks the key, line 29).       *)
obtener_precio_bitcoin_usd(resp) ==
    IF resp.kind = "exc" THEN None
    ELSE IF resp.kind = "ok" THEN Some(resp.data)
    ELSE None

-----------------------------------------------------------------------------
(* cripto_data.py *)

(* round(n / d * 10^k) by long division, so that no intermediate product   *)
(* leaves the 32-bit integers: q, r are the quotient and remainder so far. *)
RECURSIVE DivEscalada(_, _, _, _)
DivEscalada(q, r, d, k) ==
    IF k = 0
    THEN IF 2 * r < d THEN q
         ELSE IF 2 * r > d THEN q + 1
         ELSE IF q % 2 = 0 THEN q ELSE q + 1
    ELSE DivEscalada(q * 10 + ((r * 10) \div d), (r * 10) % d, d, k - 1)

(* Line 90: round(bitcoin_usd, 2), thousandths to hundredths. *)
RedondearBtc(bitcoin_usd) == RoundDiv(bitcoin_usd, 10)

(* Lines 83-85 and 93: round(bob_usdt / bitcoin_usd, 8) in units of 1e-8,  *)
(* bob_usdt in hundredths and bitcoin_usd in thousandths: 10*bob/btc*10^8. *)
CalcularBobBtc(bob_usdt, bitcoin_usd) ==
    IF bitcoin_usd > 0
    THEN DivEscalada((10 * bob_usdt) \div bitcoin_usd, (10 * bob_usdt) % bitcoin_usd,
                     bitcoin_usd, 8)
    ELSE 0

(* Variants of obtener_datos_cripto without the check of lines 57-59, and  *)
(* without the check of lines 74-76.                                       *)
obtener_datos_cripto_sin_control_buy(timestamp, btc, buy, sell) ==
    LET precio == obtener_precio_bitcoin_usd(btc)
        bitcoin_usd == IF IsNone(precio) THEN 0 ELSE precio[1]
        bob_usdt == calcular_precio_promedio(
                        obtener_ofertas_p2p_binance("BUY", MAX_RETRIES, buy).df, NUM_OFERTAS)
        ofertas_usdt_bob == obtener_ofertas_p2p_binance("SELL", MAX_RETRIES, sell).df
    IN  IF IsNone(ofertas_usdt_bob) THEN None
        ELSE Some([datetime |-> timestamp,
                   btc2usd  |-> RedondearBtc(bitcoin_usd),
                   bol2usdt |-> bob_usdt,
                   usdt2bol |-> calcular_precio_promedio(ofertas_usdt_bob, NUM_OFERTAS),
                   bol2btc  |-> CalcularBobBtc(bob_usdt, bitcoin_usd)])

obtener_datos_cripto_sin_control_sell(timestamp, btc, buy, sell) ==
    LET precio == obtener_precio_bitcoin_usd(btc)
        bitcoin_usd == IF IsNone(precio) THEN 0 ELSE precio[1]
        ofertas_bob_usdt == obtener_ofertas_p2p_binance("BUY", MAX_RETRIES, buy).df
    IN  IF IsNone(ofertas_bob_usdt) THEN None
        ELSE LET bob_usdt == calcular_precio_promedio(ofertas_bob_usdt, NUM_OFERTAS)
                 usdt_bob == calcular_precio_promedio(
                                 obtener_ofertas_p2p_binance("SELL", MAX_RETRIES, sell).df,
                                 NUM_OFERTAS)
             IN  Some([datetime |-> timestamp,
                       btc2usd  |-> RedondearBtc(bitcoin_usd),
                       bol2usdt |-> bob_usdt,
                       usdt2bol |-> usdt_bob,
                       bol2btc  |-> CalcularBobBtc(bob_usdt, bitcoin_usd)])

(* Variant in which a failed Bitcoin price fetch abandons the sample. *)
obtener_datos_cripto_aborta_sin_btc(timestamp, btc, buy, sell) ==
    LET precio == obtener_precio_bitcoin_usd(btc)
        ofertas_bob_usdt == obtener_ofertas_p2p_binance("BUY", MAX_RETRIES, buy).df
        ofertas_usdt_bob == obtener_ofertas_p2p_binance("SELL", MAX_RETRIES, sell).df
    IN  IF IsNone(precio) \/ IsNone(ofertas_bob_usdt) \/ IsNone(ofertas_usdt_bob) THEN None
        ELSE LET bob_usdt == calcular_precio_promedio(ofertas_bob_usdt, NUM_OFERTAS)
             IN  Some([datetime |-> timestamp,
                       btc2usd  |-> RedondearBtc(precio[1]),
                       bol2usdt |-> bob_usdt,
                       usdt2bol |-> calcular_precio_promedio(ofertas_usdt_bob, NUM_OFERTAS),
                       bol2btc  |-> CalcularBobBtc(bob_usdt, precio[1])])

(* Lines 28-96.  btc is the CoinGecko response, buy and sell the response  *)
(* sequences the Binance endpoint gives to the BUY and the SELL call.  The *)
(* SELL call is made only after the BUY call returned offers.              *)
obtener_datos_cripto(timestamp, btc, buy, sell) ==
    LET precio == obtener_precio_bitcoin_usd(btc)
        bitcoin_usd == IF IsNone(precio) THEN 0 ELSE precio[1]
        ofertas_bob_usdt == obtener_ofertas_p2p_binance("BUY", MAX_RETRIES, buy).df
    IN  IF IsNone(ofertas_bob_usdt) THEN None
        ELSE LET bob_usdt == calcular_precio_promedio(ofertas_bob_usdt, NUM_OFERTAS)
                 ofertas_usdt_bob == obtener_ofertas_p2p_binance("SELL", MAX_RETRIES, sell).df
             IN  IF IsNone(ofertas_usdt_bob) THEN None
                 ELSE LET usdt_bob == calcular_precio_promedio(ofertas_usdt_bob, NUM_OFERTAS)
                      IN  Some([datetime |-> timestamp,
                                btc2usd  |-> RedondearBtc(bitcoin_usd),
                                bol2usdt |-> bob_usdt,
                                usdt2bol |-> usdt_bob,
                                bol2btc  |-> CalcularBobBtc(bob_usdt, bitcoin_usd)])

(* Variant that repeats insert_one once after an exception. *)
guardar_datos_mongodb_reintenta(coleccion, datos, mongo) ==
    IF mongo = "noconn" THEN [guardado |-> FALSE, coleccion |-> coleccion, inserts |-> 0]
    ELSE IF mongo = "raise" THEN [guardado |-> FALSE, coleccion |-> coleccion, inserts |-> 2]
    ELSE IF mongo = "raise_tarde"
    THEN [guardado |-> FALSE, coleccion |-> Append(Append(coleccion, datos), datos),
          inserts |-> 2]
    ELSE [guardado |-> TRUE, coleccion |-> Append(coleccion, datos), inserts |-> 1]

(* Lines 127-156.  mongo is what the database does in this call: "ok", or  *)
(* "noconn" (conectar_mongodb returns None), or "raise" (the connection or *)
(* insert_one raises, nothing written), or "raise_tarde" (an exception     *)
(* after the server applied the write: insert_one losing the reply, or     *)
(* client.close() raising).  Every exception is caught at line 154.        *)
(* inserts counts the insert_one calls made.                               *)
guardar_datos_mongodb(coleccion, datos, mongo) ==
    IF mongo = "noconn" THEN [guardado |-> FALSE, coleccion |-> coleccion, inserts |-> 0]
    ELSE IF mongo = "raise" THEN [guardado |-> FALSE, coleccion |-> coleccion, inserts |-> 1]
    ELSE IF mongo = "raise_tarde"
    THEN [guardado |-> FALSE, coleccion |-> Append(coleccion, datos), inserts |-> 1]
    ELSE [guardado |-> TRUE, coleccion |-> Append(coleccion, datos), inserts |-> 1]

(* Lines 158-182.  raised says whether an exception leaves the function. *)
tarea_programada(coleccion, timestamp, btc, buy, sell, mongo) ==
    LET datos_cripto == obtener_datos_cripto(timestamp, btc, buy, sell)
    IN  IF IsNone(datos_cripto)
        THEN [coleccion |-> coleccion, inserts |-> 0, creado |-> FALSE, raised |-> FALSE]
        ELSE LET g == guardar_datos_mongodb(coleccion, datos_cripto[1], mongo)
             IN  [coleccion |-> g.coleccion, inserts |-> g.inserts, creado |-> TRUE,
                  raised |-> FALSE]

-----------------------------------------------------------------------------
(* analisis_tendencias.py *)

(* Line 155: dt.floor('H') of a datetime in minutes. *)
MINUTOS_HORA == 60

(* Line 266: horas=4. *)
HORAS_ANALISIS == 4

(* Lines 272-318: the fields analysed, in order, each with its threshold. *)
CAMPOS == <<"bol2usdt", "usdt2bol", "btc2usd">>

UmbralDe(campo) == IF campo = "btc2usd" THEN RatInt(5) ELSE RatInt(2)

RECURSIVE InsertarPorFecha(_, _)
InsertarPorFecha(d, s) ==
    IF s = <<>> THEN <<d>>
    ELSE IF d.datetime < Head(s).datetime THEN <<d>> \o s
         ELSE <<Head(s)>> \o InsertarPorFecha(d, Tail(s))

(* find(query).sort("datetime", 1): documents of equal datetime keep their *)
(* insertion order.                                                        *)
RECURSIVE OrdenarPorFecha(_)
OrdenarPorFecha(docs) ==
    IF docs = <<>> THEN <<>>
    ELSE InsertarPorFecha(docs[Len(docs)], OrdenarPorFecha(SubSeq(docs, 1, Len(docs) - 1)))

(* Lines 60-99.  mongo as in guardar_datos_mongodb; both failures give None. *)
obtener_datos_ultimas_horas(coleccion, ahora, horas, mongo) ==
    LET fecha_limite == ahora - horas * MINUTOS_HORA
    IN  IF mongo = "noconn" THEN None
        ELSE IF mongo = "raise" THEN None
        ELSE Some(OrdenarPorFecha(SelectSeq(coleccion, LAMBDA d : d.datetime >= fecha_limite)))

(* Lines 101-114, on exact rationals. *)
(* Variant that divides by the magnitude of the initial value. *)
calcular_variacion_porcentual_magnitud(valor_inicial, valor_final) ==
    IF RatIsZero(valor_inicial) THEN RatInt(0)
    ELSE RatMul(RatDiv(RatSub(valor_final, valor_inicial), RatAbs(valor_inicial)),
                RatInt(100))

calcular_variacion_porcentual(valor_inicial, valor_final) ==
    IF RatIsZero(valor_inicial) THEN RatInt(0)
    ELSE RatMul(RatDiv(RatSub(valor_final, valor_inicial), valor_inicial), RatInt(100))

Hora(datetime) == (datetime \div MINUTOS_HORA) * MINUTOS_HORA

RECURSIVE OrdenarHoras(_)
OrdenarHoras(S) ==
    IF S = {} THEN <<>>
    ELSE LET m == CHOOSE x \in S : \A y \in S : x <= y
         IN  <<m>> \o OrdenarHoras(S \ {m})

RECURSIVE SumaCampo(_, _)
SumaCampo(docs, campo) ==
    IF docs = <<>> THEN 0 ELSE Head(docs)[campo] + SumaCampo(Tail(docs), campo)

(* A standard deviation is kept exact as the number under its square root; *)
(* NaN is what pandas gives where no number is defined.                    *)
Raiz(radicando) == [nan |-> FALSE, radicando |-> radicando]

NaN == [nan |-> TRUE, radicando |-> RatInt(0)]

RECURSIVE SumaCuadradosCampo(_, _)
SumaCuadradosCampo(docs, campo) ==
    IF docs = <<>> THEN 0
    ELSE Head(docs)[campo] * Head(docs)[campo] + SumaCuadradosCampo(Tail(docs), campo)

(* The 'std' aggregate of line 156: the sample standard deviation (ddof=1), *)
(* NaN for a group of one.  The sum of squared deviations from the mean of  *)
(* n values is (n * sum of squares - square of the sum) / n.                *)
Std(grupo, campo) ==
    LET n == Len(grupo)
        suma == SumaCampo(grupo, campo)
    IN  IF n < 2 THEN NaN
        ELSE Raiz(Rat(n * SumaCuadradosCampo(grupo, campo) - suma * suma, n * (n - 1)))

(* Line 156: groupby('hora')[campo].agg(...), the groups in ascending hour; *)
(* the aggregates mean and count here, the column 'std' in std_por_hora.     *)
stats_por_hora(datos, campo) ==
    LET horas == OrdenarHoras({Hora(datos[i].datetime) : i \in DOMAIN datos})
    IN  [i \in DOMAIN horas |->
            LET grupo == SelectSeq(datos, LAMBDA d : Hora(d.datetime) = horas[i])
            IN  [hora |-> horas[i],
                 mean |-> Rat(SumaCampo(grupo, campo), Len(grupo)),
                 count |-> Len(grupo)]]

(* stats_por_hora['std'], in the same order. *)
std_por_hora(datos, campo) ==
    LET horas == OrdenarHoras({Hora(datos[i].datetime) : i \in DOMAIN datos})
    IN  [i \in DOMAIN horas |->
            Std(SelectSeq(datos, LAMBDA d : Hora(d.datetime) = horas[i]), campo)]

(* A mean of standard deviations, kept exact: the sum of the square roots   *)
(* of raices (the non-zero ones; a zero adds nothing) divided by entre.     *)
MediaDeRaices(raices, entre) ==
    [nan |-> FALSE,
     raices |-> SelectSeq(raices, LAMBDA v : ~RatIsZero(v)),
     entre |-> entre]

MediaNaN == [nan |-> TRUE, raices |-> <<>>, entre |-> 0]

RECURSIVE DesviosValidos(_, _)
DesviosValidos(std, i) ==
    IF i > Len(std) THEN <<>>
    ELSE IF std[i].nan THEN DesviosValidos(std, i + 1)
    ELSE <<std[i].radicando>> \o DesviosValidos(std, i + 1)

(* Line 171: stats_por_hora['std'].mean().  Series.mean skips the NaN       *)
(* entries (skipna=True) and is NaN when no entry is left.                  *)
volatilidad_promedio(std) ==
    LET validos == DesviosValidos(std, 1)
    IN  IF validos = <<>> THEN MediaNaN ELSE MediaDeRaices(validos, Len(validos))

(* The sign of the rounding residue np.polyfit leaves when the exact slope  *)
(* is zero: the fit solves a scaled least-squares problem in floating      *)
(* point, and the coefficient it returns for collinear horizontal points   *)
(* is zero or a value of magnitude near 1e-16 of either sign.              *)
Ruidos == {-1, 0, 1}

(* The magnitude given to such a residue: 1 / EscalaRuido. *)
EscalaRuido == 1000000

(* The sum over the buckets i .. N of (2 * (i - 1) - (N - 1)) * mean_i:    *)
(* twice the sum of (x - mean(x)) * y for x = 0 .. N - 1.                  *)
RECURSIVE SumaCentrada(_, _)
SumaCentrada(stats, i) ==
    IF i > Len(stats) THEN RatInt(0)
    ELSE RatAdd(RatMul(RatInt(2 * (i - 1) - (Len(stats) - 1)), stats[i].mean),
                SumaCentrada(stats, i + 1))

(* The sum over i .. N of (2 * (i - 1) - (N - 1))^2: four times the sum of *)
(* (x - mean(x))^2.                                                        *)
RECURSIVE SumaCuadrados(_, _)
SumaCuadrados(N, i) ==
    IF i > N THEN 0
    ELSE (2 * (i - 1) - (N - 1)) * (2 * (i - 1) - (N - 1)) + SumaCuadrados(N, i + 1)

(* Line 164: the first coefficient of np.polyfit(x, y, 1) for x = 0..N-1   *)
(* and y the hourly means, N >= 2: the least-squares slope, and a residue  *)
(* of sign ruido where that slope is exactly zero.  For y = 0 throughout   *)
(* every product of the solve is zero and so is the coefficient.           *)
Polyfit(stats, ruido) ==
    LET exacta == RatDiv(RatMul(RatInt(2), SumaCentrada(stats, 1)),
                         RatInt(SumaCuadrados(Len(stats), 1)))
    IN  IF ~RatIsZero(exacta) THEN exacta
        ELSE IF \A i \in DOMAIN stats : RatIsZero(stats[i].mean) THEN RatInt(0)
        ELSE Rat(ruido, EscalaRuido)

(* Variant of line 165 with ">=". *)
Tendencia_no_estricta(stats, ruido) ==
    IF Len(stats) > 1
    THEN LET pendiente == Polyfit(stats, ruido)
         IN  [pendiente |-> pendiente,
              direccion_tendencia |-> IF RatGE(pendiente, RatInt(0)) THEN "alcista"
                                      ELSE "bajista"]
    ELSE [pendiente |-> RatInt(0), direccion_tendencia |-> "neutral"]

(* Variant of line 165 with the comparison reversed. *)
Tendencia_invertida(stats, ruido) ==
    IF Len(stats) > 1
    THEN LET pendiente == Polyfit(stats, ruido)
         IN  [pendiente |-> pendiente,
              direccion_tendencia |-> IF RatGT(RatInt(0), pendiente) THEN "alcista"
                                      ELSE "bajista"]
    ELSE [pendiente |-> RatInt(0), direccion_tendencia |-> "neutral"]

(* Lines 159-168. *)
Tendencia(stats, ruido) ==
    IF Len(stats) > 1
    THEN LET pendiente == Polyfit(stats, ruido)
         IN  [pendiente |-> pendiente,
              direccion_tendencia |-> IF RatGT(pendiente, RatInt(0)) THEN "alcista"
                                      ELSE "bajista"]
    ELSE [pendiente |-> RatInt(0), direccion_tendencia |-> "neutral"]

(* Variant of line 179 that appends the signed variation. *)
RECURSIVE MaximaVariacion_con_signo(_, _)
MaximaVariacion_con_signo(stats, i) ==
    IF i > Len(stats) THEN RatInt(0)
    ELSE LET v == calcular_variacion_porcentual(stats[i - 1].mean, stats[i].mean)
             m == MaximaVariacion_con_signo(stats, i + 1)
         IN  IF i = Len(stats) \/ RatGE(v, m) THEN v ELSE m

(* Lines 174-181: abs of the variation between consecutive hourly means,   *)
(* the largest, 0 when there is none.                                      *)
RECURSIVE MaximaVariacion(_, _)
MaximaVariacion(stats, i) ==
    IF i > Len(stats) THEN RatInt(0)
    ELSE LET v == RatAbs(calcular_variacion_porcentual(stats[i - 1].mean, stats[i].mean))
             m == MaximaVariacion(stats, i + 1)
         IN  IF RatGE(v, m) THEN v ELSE m

(* Variant of line 184 with strict comparisons. *)
HayTendencia_estricta(variacion_total, variacion_maxima_entre_horas, umbral_variacion) ==
    RatGT(RatAbs(variacion_total), umbral_variacion)
        \/ RatGT(variacion_maxima_entre_horas, umbral_variacion)

(* Line 184. *)
HayTendencia(variacion_total, variacion_maxima_entre_horas, umbral_variacion) ==
    RatGE(RatAbs(variacion_total), umbral_variacion)
        \/ RatGE(variacion_maxima_entre_horas, umbral_variacion)

(* Variant of lines 213 and 224 with "else" in place of the "elif" on      *)
(* btc2usd.                                                                *)
Detalles_sin_elif(campo, variacion_total, hay_tendencia) ==
    [asset |-> IF campo = "bol2usdt" THEN "USDT/BOB"
               ELSE IF campo = "usdt2bol" THEN "BOB/USDT" ELSE "BTC/USD",
     trend_type |-> IF RatGT(variacion_total, RatInt(0)) THEN "ALCISTA" ELSE "BAJISTA",
     variation |-> variacion_total,
     recommendation |->
        IF ~hay_tendencia THEN ""
        ELSE IF RatGT(variacion_total, RatInt(0))
             THEN IF campo = "bol2usdt" THEN "Posible oportunidad de VENTA de USDT (precio alto)"
                  ELSE "Posible oportunidad de VENTA de BTC (precio alto)"
             ELSE IF campo = "bol2usdt" THEN "Posible oportunidad de COMPRA de USDT (precio bajo)"
                  ELSE "Posible oportunidad de COMPRA de BTC (precio bajo)"]

(* Lines 198-226: the alert's fields; the recommendation is filled in only *)
(* under "if hay_tendencia" and only for bol2usdt and btc2usd.             *)
Detalles(campo, variacion_total, hay_tendencia) ==
    [asset |-> IF campo = "bol2usdt" THEN "USDT/BOB"
               ELSE IF campo = "usdt2bol" THEN "BOB/USDT" ELSE "BTC/USD",
     trend_type |-> IF RatGT(variacion_total, RatInt(0)) THEN "ALCISTA" ELSE "BAJISTA",
     variation |-> variacion_total,
     recommendation |->
        IF ~hay_tendencia THEN ""
        ELSE IF RatGT(variacion_total, RatInt(0))
             THEN IF campo = "bol2usdt" THEN "Posible oportunidad de VENTA de USDT (precio alto)"
                  ELSE IF campo = "btc2usd" THEN "Posible oportunidad de VENTA de BTC (precio alto)"
                  ELSE ""
             ELSE IF campo = "bol2usdt" THEN "Posible oportunidad de COMPRA de USDT (precio bajo)"
                  ELSE IF campo = "btc2usd" THEN "Posible oportunidad de COMPRA de BTC (precio bajo)"
                  ELSE ""]

(* Variants of the notification step: sent outside "if hay_tendencia", and *)
(* without the try/except around the send.                                 *)
Notificar_sin_tendencia(hay_tendencia, notificar, detalles, telegram) ==
    IF notificar
    THEN IF telegram = "init_raise"
         THEN [enviadas |-> <<>>, raised |-> FALSE]
         ELSE [enviadas |-> <<detalles>>, raised |-> FALSE]
    ELSE [enviadas |-> <<>>, raised |-> FALSE]

Notificar_propaga(hay_tendencia, notificar, detalles, telegram) ==
    IF hay_tendencia /\ notificar
    THEN IF telegram = "init_raise"
         THEN [enviadas |-> <<>>, raised |-> TRUE]
         ELSE [enviadas |-> <<detalles>>, raised |-> telegram = "raise"]
    ELSE [enviadas |-> <<>>, raised |-> FALSE]

(* Lines 206 and 228-241.  telegram is what the notifier does in this call: *)
(*   "ok"         send_trend_alert returns True,                            *)
(*   "false"      send_trend_alert returns False (not initialised, or the   *)
(*                TelegramError caught inside it),                          *)
(*   "raise"      send_trend_alert raises,                                  *)
(*   "init_raise" get_telegram_notifier raises before any send.             *)
(* enviadas lists the send_trend_alert calls made; raised says whether an   *)
(* exception leaves the try/except.                                         *)
Notificar(hay_tendencia, notificar, detalles, telegram) ==
    IF hay_tendencia /\ notificar /\ hay_tendencia
    THEN IF telegram = "init_raise"
         THEN [enviadas |-> <<>>, raised |-> FALSE]
         ELSE [enviadas |-> <<detalles>>, raised |-> FALSE]
    ELSE [enviadas |-> <<>>, raised |-> FALSE]

(* Variant of line 136 that tests only "not datos". *)
DatosInsuficientes_solo_vacio(datos) == IsNone(datos) \/ Len(datos[1]) = 0

(* Line 136: "not datos or len(datos) < 2", datos an option. *)
DatosInsuficientes(datos) == IsNone(datos) \/ Len(datos[1]) = 0 \/ Len(datos[1]) < 2

(* Line 146: the frame has a column for every key of any document. *)
CampoAusente(docs, campo) == campo \notin UNION {DOMAIN docs[i] : i \in DOMAIN docs}

(* The numbers the message of a full analysis reports (lines 187-195); the *)
(* two early returns carry a fixed text instead.                           *)
Mensaje(texto, horas, variacion_total, tendencia, volatilidad, variacion_maxima) ==
    [texto |-> texto, horas |-> horas, variacion_total |-> variacion_total,
     direccion_tendencia |-> tendencia.direccion_tendencia,
     pendiente |-> tendencia.pendiente,
     volatilidad_promedio |-> volatilidad,
     variacion_maxima |-> variacion_maxima]

(* The early returns report no trend line at all. *)
SinTendencia == [pendiente |-> RatInt(0), direccion_tendencia |-> ""]

(* Nor a volatility. *)
SinVolatilidad == [nan |-> FALSE, raices |-> <<>>, entre |-> 0]

(* Lines 116-243.  datos is an option (None, or the list of documents).    *)
(* tupla is the length of the tuple returned: 3 at the two early returns,  *)
(* 4 at the end.  ruido is the sign of the residue of the fit (see Ruidos). *)
detectar_tendencia_significativa(datos, campo, umbral_variacion, notificar, telegram, ruido) ==
    IF DatosInsuficientes(datos)
    THEN [tupla |-> 3, hay_tendencia |-> FALSE, variacion |-> RatInt(0),
          mensaje |-> Mensaje("Datos insuficientes", 0, RatInt(0), SinTendencia,
                              SinVolatilidad, RatInt(0)),
          detalles |-> None, enviadas |-> <<>>, raised |-> FALSE]
    ELSE IF CampoAusente(datos[1], campo)
    THEN [tupla |-> 3, hay_tendencia |-> FALSE, variacion |-> RatInt(0),
          mensaje |-> Mensaje("El campo no existe", 0, RatInt(0), SinTendencia,
                              SinVolatilidad, RatInt(0)),
          detalles |-> None, enviadas |-> <<>>, raised |-> FALSE]
    ELSE LET df == datos[1]
             primer_valor == RatInt(df[1][campo])
             ultimo_valor == RatInt(df[Len(df)][campo])
             variacion_total == calcular_variacion_porcentual(primer_valor, ultimo_valor)
             stats == stats_por_hora(df, campo)
             tendencia == Tendencia(stats, ruido)
             variacion_maxima_entre_horas == MaximaVariacion(stats, 2)
             hay_tendencia == HayTendencia(variacion_total, variacion_maxima_entre_horas,
                                           umbral_variacion)
             detalles == Detalles(campo, variacion_total, hay_tendencia)
             n == Notificar(hay_tendencia, notificar, detalles, telegram)
         IN  [tupla |-> 4, hay_tendencia |-> hay_tendencia, variacion |-> variacion_total,
              mensaje |-> Mensaje("Analisis de tendencia", Len(stats), variacion_total,
                                  tendencia, volatilidad_promedio(std_por_hora(df, campo)),
                                  variacion_maxima_entre_horas),
              detalles |-> Some(detalles), enviadas |-> n.enviadas, raised |-> n.raised]

(* Lines 272-331: the three calls in turn.  Unpacking a 3-tuple into the   *)
(* four targets of lines 273, 294 and 313 raises ValueError, which nothing *)
(* in analizar_tendencias catches: the run ends there.                     *)
RECURSIVE AnalizarCampos(_, _, _, _, _, _)
AnalizarCampos(i, datos, notificar, telegram, ruido, acc) ==
    IF i > Len(CAMPOS) THEN acc
    ELSE LET campo == CAMPOS[i]
             r == detectar_tendencia_significativa(datos, campo, UmbralDe(campo),
                                                   notificar, telegram[campo], ruido)
             llamado == [acc EXCEPT !.analizados = Append(@, campo),
                                    !.enviadas[campo] = r.enviadas]
         IN  IF r.raised \/ r.tupla # 4
             THEN [llamado EXCEPT !.raised = TRUE]
             ELSE AnalizarCampos(i + 1, datos, notificar, telegram, ruido,
                      [llamado EXCEPT !.resultados[campo] =
                          [hay_tendencia |-> r.hay_tendencia, detalles |-> r.detalles]])

(* Lines 245-331.  telegram maps each field to what the notifier does in   *)
(* that field's call.                                                      *)
analizar_tendencias(coleccion, ahora, notificar, mongo, telegram, ruido) ==
    LET resultados == [c \in {CAMPOS[i] : i \in DOMAIN CAMPOS} |->
                          [hay_tendencia |-> FALSE, detalles |-> None]]
        vacio == [resultados |-> resultados,
                  enviadas |-> [c \in {CAMPOS[i] : i \in DOMAIN CAMPOS} |-> <<>>],
                  analizados |-> <<>>, raised |-> FALSE]
        datos == obtener_datos_ultimas_horas(coleccion, ahora, HORAS_ANALISIS, mongo)
    IN  IF IsNone(datos) \/ Len(datos[1]) = 0 THEN vacio
        ELSE AnalizarCampos(1, datos, notificar, telegram, ruido, vacio)

-----------------------------------------------------------------------------
(* Bounds and input domains *)

MaxReintentos == 3      \* max_retries ranges over 0 .. MaxReintentos

MaxOfertas == 2         \* advertisements in one response

Precios == {100, 103}   \* 1.00 and 1.03, in hundredths

Anuncios == {[price |-> p] : p \in Precios}

ListasDeAnuncios == UNION {[1 .. n -> Anuncios] : n \in 0 .. MaxOfertas}

Respuestas ==
    {Response("exc", <<>>), Response("http", <<>>)}
        \cup {Response("ok", l) : l \in ListasDeAnuncios}

(* The responses the sample and service specifications draw from. *)
RespuestasMuestra ==
    {Response("exc", <<>>), Response("http", <<>>), Response("ok", <<>>),
     Response("ok", <<[price |-> 100]>>),
     Response("ok", <<[price |-> 103], [price |-> 100], [price |-> 103]>>)}

(* CoinGecko: a failure of either kind, a body without the price, a price, *)
(* and a body whose number is below zero (float() accepts any number).     *)
RespuestasBtc ==
    {Response("exc", 0), Response("http", 0), Response("ok", 0), Response("ok", 50004),
     Response("ok", -50004)}

Idle == <<>>

-----------------------------------------------------------------------------
(* SpecFetch: one call of obtener_ofertas_p2p_binance on every source. *)

(* The endpoint would answer a request beyond the max_retries-th with      *)
(* offers: a call that makes one request too many returns them.            *)
RespuestaDeMas == Response("ok", <<[price |-> 100]>>)

FetchInit ==
    /\ \E m \in 0 .. MaxReintentos :
           \E t \in {"BUY", "SELL"}, s \in [1 .. m -> Respuestas] :
               f_in = [trade_type |-> t, max_retries |-> m,
                       source |-> Append(s, RespuestaDeMas)]
    /\ f_out = None
    /\ s_in = Idle /\ s_out = Idle /\ a_in = Idle /\ a_out = Idle
    /\ r_in = Idle /\ r_out = Idle
    /\ p_in = Idle /\ p_out = Idle
    /\ pc = "off" /\ store = <<>> /\ now = 0 /\ lastTick = Idle

FetchCall ==
    /\ IsNone(f_out)
    /\ f_out' = Some(obtener_ofertas_p2p_binance(f_in.trade_type, f_in.max_retries,
                                                 f_in.source))
    /\ UNCHANGED <<f_in, s_in, s_out, a_in, a_out, r_in, r_out, p_in, p_out,
                 pc, store, now, lastTick>>

FetchNext == FetchCall

SpecFetch == FetchInit /\ [][FetchNext]_vars

(* What the claims call a failed and a successful attempt of the source. *)
RespuestaFalla(resp) == resp.kind \in {"exc", "http"}

RespuestaConOfertas(resp) == resp.kind = "ok" /\ Len(resp.data) >= 1

RespuestaVacia(resp) == resp.kind = "ok" /\ Len(resp.data) = 0

PrimerExitoEn(source, k) ==
    /\ k \in DOMAIN source
    /\ \A i \in 1 .. (k - 1) : RespuestaFalla(source[i])
    /\ RespuestaConOfertas(source[k])

(* C3: a call whose source fails (transport error or non-200) on its first  *)
(* k-1 requests and answers the k-th with status 200 and offers, k <=       *)
(* max_retries, returns the k-th response (its raw body, and a frame of its *)
(* offers) and has made exactly k requests.                                 *)
C3_RetornaIntentoK ==
    ~IsNone(f_out) =>
        \A k \in 1 .. f_in.max_retries :
            PrimerExitoEn(f_in.source, k) =>
                /\ f_out[1].raw = Some(f_in.source[k].data)
                /\ ~IsNone(f_out[1].df)
                /\ Len(f_out[1].df[1]) = Len(f_in.source[k].data)
                /\ NumPosts(f_out[1].log) = k

C3_Witness ==
    /\ ~IsNone(f_out)
    /\ f_in.max_retries = 3
    /\ PrimerExitoEn(f_in.source, 3)
    /\ NumPosts(f_out[1].log) = 3
    /\ f_out[1].raw = Some(f_in.source[3].data)

(* C4: when every request of the call fails, the call makes exactly         *)
(* max_retries requests and returns (None, None): no frame, no price.       *)
C4_AgotadoDevuelveNone ==
    (~IsNone(f_out) /\ \A i \in 1 .. f_in.max_retries : RespuestaFalla(f_in.source[i])) =>
        /\ IsNone(f_out[1].df)
        /\ IsNone(f_out[1].raw)
        /\ NumPosts(f_out[1].log) = f_in.max_retries

C4_Witness ==
    /\ ~IsNone(f_out)
    /\ f_in.max_retries = 3
    /\ \A i \in 1 .. f_in.max_retries : RespuestaFalla(f_in.source[i])
    /\ f_in.source[1].kind # f_in.source[2].kind
    /\ NumPosts(f_out[1].log) = 3
    /\ IsNone(f_out[1].df)

(* C10: a status-200 response with zero offers, coming first, ends the call *)
(* at once as a success with an empty frame: one request, no (None, None).  *)
C10_VacioEsExito ==
    (~IsNone(f_out) /\ f_in.max_retries >= 1 /\ RespuestaVacia(f_in.source[1])) =>
        /\ f_out[1].df = Some(<<>>)
        /\ ~IsNone(f_out[1].raw)
        /\ NumPosts(f_out[1].log) = 1

(* The number of offers of the list s whose price is p. *)
CuentaPrecio(s, p) == Len(SelectSeq(s, LAMBDA o : o.precio = p))

(* C11: the frame of a successful call holds exactly the offers of the      *)
(* response it returns (as many, and each price as often), with prices      *)
(* ascending for BUY and descending for SELL.                               *)
C11_PermutacionOrdenada ==
    (~IsNone(f_out) /\ ~IsNone(f_out[1].df)) =>
        LET df == f_out[1].df[1]
            recibidas == ExtraerOfertas(f_out[1].raw[1])
        IN  /\ Len(df) = Len(recibidas)
            /\ \A p \in Precios : CuentaPrecio(df, p) = CuentaPrecio(recibidas, p)
            /\ \A i \in DOMAIN df : \A j \in DOMAIN df :
                   i < j => IF f_in.trade_type = "BUY"
                            THEN df[i].precio <= df[j].precio
                            ELSE df[i].precio >= df[j].precio

C11_Witness ==
    /\ ~IsNone(f_out)
    /\ f_in.trade_type = "SELL"
    /\ f_in.max_retries >= 2
    /\ f_in.source[2] = Response("ok", <<[price |-> 100], [price |-> 103]>>)
    /\ f_out[1].df = Some(<<[precio |-> 103], [precio |-> 100]>>)

(* C19: a call makes at most max_retries requests; every wait lasts the    *)
(* same retry_delay and comes right after a request; a request that failed *)
(* (transport error or non-200) is followed by exactly one wait and then   *)
(* the next request when it is not the max_retries-th, and by nothing when *)
(* it is; a request answered with offers is followed by nothing.           *)
C19_EsperaFijaEntreIntentos ==
    ~IsNone(f_out) =>
        LET log == f_out[1].log
        IN  /\ NumPosts(log) <= f_in.max_retries
            /\ \A i \in DOMAIN log :
                   log[i].op = "sleep" =>
                       /\ log[i].espera = RETRY_DELAY
                       /\ i > 1 /\ log[i - 1].op = "post"
            /\ \A i \in DOMAIN log :
                   log[i].op = "post" =>
                       LET k == NumPosts(SubSeq(log, 1, i))
                       IN  /\ (RespuestaFalla(f_in.source[k]) /\ k < f_in.max_retries) =>
                                  /\ i + 2 <= Len(log)
                                  /\ log[i + 1].op = "sleep"
                                  /\ log[i + 2].op = "post"
                           /\ (RespuestaFalla(f_in.source[k]) /\ k >= f_in.max_retries) =>
                                  i = Len(log)
                           /\ RespuestaConOfertas(f_in.source[k]) => i = Len(log)

C19_Witness ==
    /\ ~IsNone(f_out)
    /\ f_in.max_retries = 3
    /\ \A i \in 1 .. 3 : RespuestaFalla(f_in.source[i])
    /\ f_out[1].log = <<Post, Sleep(RETRY_DELAY), Post, Sleep(RETRY_DELAY), Post>>

-----------------------------------------------------------------------------
(* SpecSample: one call of obtener_datos_cripto in every environment. *)

FuentesMuestra == [1 .. MAX_RETRIES -> RespuestasMuestra]

SampleInit ==
    /\ s_in \in [btc : RespuestasBtc, buy : FuentesMuestra, sell : FuentesMuestra]
    /\ s_out = None
    /\ f_in = Idle /\ f_out = Idle /\ a_in = Idle /\ a_out = Idle
    /\ r_in = Idle /\ r_out = Idle
    /\ p_in = Idle /\ p_out = Idle
    /\ pc = "off" /\ store = <<>> /\ now = 0 /\ lastTick = Idle

SampleCall ==
    /\ IsNone(s_out)
    /\ s_out' = Some(obtener_datos_cripto(0, s_in.btc, s_in.buy, s_in.sell))
    /\ UNCHANGED <<s_in, f_in, f_out, a_in, a_out, r_in, r_out, p_in, p_out,
                 pc, store, now, lastTick>>

SampleNext == SampleCall

SpecSample == SampleInit /\ [][SampleNext]_vars

(* The fetch of one side, on this source, ends with its retries exhausted. *)
Agotado(trade_type, source) ==
    IsNone(obtener_ofertas_p2p_binance(trade_type, MAX_RETRIES, source).df)

(* C1: obtener_datos_cripto returns None whenever the BUY fetch or the SELL *)
(* fetch ends with retries exhausted, whatever the Bitcoin price fetch and  *)
(* the other side do.                                                       *)
C1_AgotadoSinMuestra ==
    (~IsNone(s_out) /\ (Agotado("BUY", s_in.buy) \/ Agotado("SELL", s_in.sell))) =>
        IsNone(s_out[1])

C1_Witness ==
    /\ ~IsNone(s_out)
    /\ s_in.btc = Response("ok", 50004)
    /\ ~Agotado("BUY", s_in.buy)
    /\ Agotado("SELL", s_in.sell)
    /\ \E i \in DOMAIN s_in.sell : s_in.sell[i].kind = "http"
    /\ IsNone(s_out[1])

(* The reference price the sample is built from, in thousandths: the one   *)
(* fetched, 0 when the fetch failed.                                       *)
PrecioReferencia(btc) == IF btc.kind = "ok" THEN btc.data ELSE 0

(* q, in units of 1e-8, is bob / P to the nearest unit, for bob in         *)
(* hundredths and P in thousandths: |P * q - bob * 10^9| <= |P| / 2, the   *)
(* product taken in two parts (q = 1000 * qh + ql) to stay in range.       *)
EsCocienteRedondeado(q, bob, P) ==
    LET qh == q \div 1000
        ql == q % 1000
        D == P * qh - bob * 1000000
    IN  /\ Abs(D) <= 100000
        /\ 2 * Abs(1000 * D + P * ql) <= Abs(P)

AmbosLadosConOfertas == ~Agotado("BUY", s_in.buy) /\ ~Agotado("SELL", s_in.sell)

(* C17 as stated: when both side fetches succeed the sample is built; a     *)
(* failed reference-price fetch gives btc2usd = 0 and bol2btc = 0; bol2btc  *)
(* is bol2usdt / reference price when that price is not zero, 0 otherwise.  *)
C17_TasaCruzadaNoNula ==
    (~IsNone(s_out) /\ AmbosLadosConOfertas) =>
        /\ ~IsNone(s_out[1])
        /\ LET d == s_out[1][1]
               P == PrecioReferencia(s_in.btc)
           IN  /\ s_in.btc.kind # "ok" => (d.btc2usd = 0 /\ d.bol2btc = 0)
               /\ IF P # 0 THEN EsCocienteRedondeado(d.bol2btc, d.bol2usdt, P)
                  ELSE d.bol2btc = 0

(* C17 amended: the same with the quotient taken when the reference price   *)
(* is above zero, and bol2btc = 0 for every other price; btc2usd is the     *)
(* reference price to 2 decimals.                                           *)
C17_TasaCruzadaPositiva ==
    (~IsNone(s_out) /\ AmbosLadosConOfertas) =>
        /\ ~IsNone(s_out[1])
        /\ LET d == s_out[1][1]
               P == PrecioReferencia(s_in.btc)
           IN  /\ s_in.btc.kind # "ok" => (d.btc2usd = 0 /\ d.bol2btc = 0)
               /\ 2 * Abs(10 * d.btc2usd - P) <= 10
               /\ IF P > 0 THEN EsCocienteRedondeado(d.bol2btc, d.bol2usdt, P)
                  ELSE d.bol2btc = 0

C17_Witness ==
    /\ ~IsNone(s_out)
    /\ AmbosLadosConOfertas
    /\ s_in.btc.kind = "exc"
    /\ ~IsNone(s_out[1])
    /\ s_out[1][1].btc2usd = 0
    /\ s_out[1][1].bol2btc = 0
    /\ s_out[1][1].bol2usdt = 102

-----------------------------------------------------------------------------
(* Spec: the service of cripto_data.py, lines 204-227.                     *)
(*   pc = "inicio_datos"     before the first tarea_programada (line 210)  *)
(*   pc = "inicio_analisis"  before ejecutar_analisis_una_vez (line 213)   *)
(*   pc = "bucle"            in the loop of lines 220-222                  *)
(*   pc = "error"            an exception reached line 226: the process    *)
(*                           logs it and ends                              *)
(*   pc = "detenido"         KeyboardInterrupt, line 224                   *)
(* lastTick records the last tick run: which, whether a side's fetch was   *)
(* exhausted, the insert_one calls it made, the documents in the analysed  *)
(* window, and whether an exception left the tick.                         *)

MaxStore == 2           \* documents the collection may hold

MaxPasos == 2           \* steps the clock may take

PasoReloj == 150        \* minutes per step of the clock

(* What the Binance endpoint does during one BUY call and one SELL call of *)
(* a tick, and what CoinGecko answers.                                     *)
(* CoinGecko as the service meets it: a failure or a price. *)
RespuestasBtcServicio == {Response("exc", 0), Response("ok", 50004)}

FuentesBuy ==
    {[i \in 1 .. MAX_RETRIES |-> Response("exc", <<>>)],
     [i \in 1 .. MAX_RETRIES |-> Response("ok", <<>>)],
     <<Response("ok", <<[price |-> 100]>>), Response("exc", <<>>), Response("exc", <<>>)>>,
     <<Response("exc", <<>>), Response("http", <<>>),
       Response("ok", <<[price |-> 103], [price |-> 100], [price |-> 103]>>)>>}

FuentesSell ==
    {<<Response("http", <<>>), Response("exc", <<>>), Response("http", <<>>)>>,
     <<Response("exc", <<>>), Response("ok", <<[price |-> 100]>>), Response("exc", <<>>)>>}

EstadosMongo == {"ok", "noconn", "raise"}

(* What the database can do in a call that writes. *)
EstadosInsercion == EstadosMongo \cup {"raise_tarde"}

EstadosTelegram == {"ok", "false", "raise", "init_raise"}

CamposSet == {CAMPOS[i] : i \in DOMAIN CAMPOS}

SinTick == [kind |-> "none", agotado_buy |-> FALSE, agotado_sell |-> FALSE,
            mongo |-> "none", inserts |-> 0, en_ventana |-> 0, raised |-> FALSE]

Init ==
    /\ pc = "inicio_datos"
    /\ store = <<>>
    /\ now = 0
    /\ lastTick = SinTick
    /\ f_in = Idle /\ f_out = Idle /\ s_in = Idle /\ s_out = Idle
    /\ a_in = Idle /\ a_out = Idle /\ r_in = Idle /\ r_out = Idle
    /\ p_in = Idle /\ p_out = Idle

Inactivos == <<f_in, f_out, s_in, s_out, a_in, a_out, r_in, r_out, p_in, p_out>>

(* One run of tarea_programada at the current time. *)
CorrerDatos(siguiente) ==
    \E btc \in RespuestasBtcServicio, buy \in FuentesBuy, sell \in FuentesSell,
       mongo \in EstadosInsercion :
        LET r == tarea_programada(store, now, btc, buy, sell, mongo)
        IN  /\ store' = r.coleccion
            /\ lastTick' = [kind |-> "datos",
                            agotado_buy |-> Agotado("BUY", buy),
                            agotado_sell |-> Agotado("SELL", sell),
                            mongo |-> mongo,
                            inserts |-> r.inserts, en_ventana |-> 0,
                            raised |-> r.raised]
            /\ pc' = IF r.raised THEN "error" ELSE siguiente
            /\ UNCHANGED now

(* One run of analizar_tendencias(notificar=True) at the current time. *)
CorrerAnalisis ==
    \E mongo \in EstadosMongo, t \in EstadosTelegram, ruido \in Ruidos :
        LET telegram == [c \in CamposSet |-> t]
            r == analizar_tendencias(store, now, TRUE, mongo, telegram, ruido)
            datos == obtener_datos_ultimas_horas(store, now, HORAS_ANALISIS, mongo)
        IN  /\ lastTick' = [kind |-> "analisis",
                            agotado_buy |-> FALSE, agotado_sell |-> FALSE,
                            mongo |-> mongo, inserts |-> 0,
                            en_ventana |-> IF IsNone(datos) THEN 0 ELSE Len(datos[1]),
                            raised |-> r.raised]
            /\ pc' = IF r.raised THEN "error" ELSE "bucle"
            /\ UNCHANGED <<store, now>>

InicioDatos ==
    /\ pc = "inicio_datos"
    /\ CorrerDatos("inicio_analisis")
    /\ UNCHANGED Inactivos

InicioAnalisis ==
    /\ pc = "inicio_analisis"
    /\ CorrerAnalisis
    /\ UNCHANGED Inactivos

(* schedule.run_pending() runs tarea_programada. *)
TickDatos ==
    /\ pc = "bucle"
    /\ Len(store) < MaxStore
    /\ CorrerDatos("bucle")
    /\ UNCHANGED Inactivos

(* schedule.run_pending() runs analizar_tendencias. *)
TickAnalisis ==
    /\ pc = "bucle"
    /\ CorrerAnalisis
    /\ UNCHANGED Inactivos

(* time.sleep: the clock moves on. *)
PasaTiempo ==
    /\ pc \in {"inicio_analisis", "bucle"}
    /\ now < MaxPasos * PasoReloj
    /\ now' = now + PasoReloj
    /\ UNCHANGED <<pc, store, lastTick>>
    /\ UNCHANGED Inactivos

(* KeyboardInterrupt, lines 224-225. *)
Detener ==
    /\ pc \in {"inicio_datos", "inicio_analisis", "bucle"}
    /\ pc' = "detenido"
    /\ UNCHANGED <<store, now, lastTick>>
    /\ UNCHANGED Inactivos

Next ==
    \/ InicioDatos
    \/ InicioAnalisis
    \/ TickDatos
    \/ TickAnalisis
    \/ PasaTiempo
    \/ Detener

Spec == Init /\ [][Next]_vars

CamposMuestra == {"datetime", "btc2usd", "bol2usdt", "usdt2bol", "bol2btc"}

(* C2: every document of the collection carries datetime, btc2usd,         *)
(* bol2usdt, usdt2bol and bol2btc, and a tick of tarea_programada in which  *)
(* the BUY or the SELL fetch exhausted its retries calls insert_one zero    *)
(* times and leaves the collection as it was.                               *)
C2_SoloMuestrasCompletas ==
    /\ [](\A i \in DOMAIN store : CamposMuestra \subseteq DOMAIN store[i])
    /\ [][(/\ lastTick'.kind = "datos"
           /\ (lastTick'.agotado_buy \/ lastTick'.agotado_sell))
              => (store' = store /\ lastTick'.inserts = 0)]_vars

C2_Witness ==
    /\ lastTick.kind = "datos"
    /\ ~lastTick.agotado_buy
    /\ lastTick.agotado_sell
    /\ lastTick.inserts = 0
    /\ Len(store) = 1
    /\ pc = "bucle"

(* C18: a tick of tarea_programada in which the database is unreachable or *)
(* the write raises calls insert_one at most once, keeps every document the *)
(* collection held, in place, adds at most one document, and returns        *)
(* without raising.                                                         *)
C18_FalloDeAlmacenSinReintento ==
    [][(/\ lastTick'.kind = "datos"
        /\ lastTick'.mongo \in {"noconn", "raise", "raise_tarde"})
           => (/\ lastTick'.inserts <= 1
               /\ Len(store') >= Len(store)
               /\ SubSeq(store', 1, Len(store)) = store
               /\ Len(store') <= Len(store) + 1
               /\ ~lastTick'.raised
               /\ pc' # "error")]_vars

C18_Witness ==
    /\ lastTick.kind = "datos"
    /\ lastTick.mongo = "raise"
    /\ ~lastTick.agotado_buy /\ ~lastTick.agotado_sell
    /\ lastTick.inserts = 1
    /\ Len(store) = 1
    /\ ~lastTick.raised
    /\ pc = "bucle"

(* C5: no tick is fatal: whatever fails in it (an exhausted acquisition,    *)
(* the database, fewer than 2 documents in the analysed window, a missing   *)
(* field, the notification), no exception leaves the tick and the service   *)
(* stays in its loop.                                                       *)
C5_NingunTickFatal ==
    lastTick.kind # "none" => (~lastTick.raised /\ pc # "error")

-----------------------------------------------------------------------------
(* SpecAnalyze: one call of detectar_tendencia_significativa on every      *)
(* series of up to MaxMuestras documents in ascending datetime, as the     *)
(* query of obtener_datos_ultimas_horas delivers them.                     *)

MaxMuestras == 3

Tiempos == {0, 30, 60, 120}

Valores == {0, 100, 102, 103}

(* A document whose three analysed fields carry the same value. *)
DocSerie(t, v) == [datetime |-> t, bol2usdt |-> v, usdt2bol |-> v, btc2usd |-> v]

DocsSerie == {DocSerie(t, v) : t \in Tiempos, v \in Valores}

EnOrden(docs) == \A i \in 1 .. (Len(docs) - 1) : docs[i].datetime <= docs[i + 1].datetime

Series == UNION {{s \in [1 .. n -> DocsSerie] : EnOrden(s)} : n \in 0 .. MaxMuestras}

(* The notifier is reached only under notificar (line 228): its state is   *)
(* drawn only for the calls that can reach it.                             *)
AnalyzeInit ==
    /\ a_in \in [datos : {None} \cup {Some(s) : s \in Series},
                 campo : CamposSet \cup {"precio"},
                 umbral : {RatInt(0), RatInt(2), RatInt(5)},
                 notificar : {TRUE},
                 telegram : {"ok", "raise"},
                 ruido : Ruidos]
              \cup [datos : {None} \cup {Some(s) : s \in Series},
                    campo : CamposSet \cup {"precio"},
                    umbral : {RatInt(0), RatInt(2), RatInt(5)},
                    notificar : {FALSE},
                    telegram : {"ok"},
                    ruido : Ruidos]
    /\ a_out = None
    /\ f_in = Idle /\ f_out = Idle /\ s_in = Idle /\ s_out = Idle
    /\ r_in = Idle /\ r_out = Idle
    /\ p_in = Idle /\ p_out = Idle
    /\ pc = "off" /\ store = <<>> /\ now = 0 /\ lastTick = Idle

AnalyzeCall ==
    /\ IsNone(a_out)
    /\ a_out' = Some(detectar_tendencia_significativa(a_in.datos, a_in.campo, a_in.umbral,
                                                      a_in.notificar, a_in.telegram,
                                                      a_in.ruido))
    /\ UNCHANGED <<a_in, f_in, f_out, s_in, s_out, r_in, r_out, p_in, p_out,
                 pc, store, now, lastTick>>

AnalyzeNext == AnalyzeCall

SpecAnalyze == AnalyzeInit /\ [][AnalyzeNext]_vars

NumMuestras(datos) == IF IsNone(datos) THEN 0 ELSE Len(datos[1])

NingunaTiene(datos, campo) == \A i \in DOMAIN datos[1] : campo \notin DOMAIN datos[1][i]

(* C6: called with fewer than 2 samples, or with a field that no sample     *)
(* has, detectar_tendencia_significativa returns significant = false,       *)
(* raises nothing and sends no alert, for every threshold.                  *)
C6_InsuficienteNoSignificativo ==
    (~IsNone(a_out) /\ (NumMuestras(a_in.datos) < 2 \/ NingunaTiene(a_in.datos, a_in.campo))) =>
        /\ ~a_out[1].hay_tendencia
        /\ ~a_out[1].raised
        /\ a_out[1].enviadas = <<>>

C6_Witness ==
    /\ ~IsNone(a_out)
    /\ NumMuestras(a_in.datos) = 1
    /\ a_in.campo = "bol2usdt"
    /\ a_in.umbral = RatInt(0)
    /\ a_in.notificar
    /\ ~a_out[1].hay_tendencia
    /\ a_out[1].enviadas = <<>>

(* C7: on 2 or more samples of a field they carry, the verdict is           *)
(* significant exactly when abs(total variation) >= threshold or the        *)
(* largest inter-hour variation >= threshold; the samples 100, 100, 103 in  *)
(* three hourly buckets with threshold 2 give a total variation of 3 and a  *)
(* significant verdict.                                                     *)
C7_SignificativoSiiUmbral ==
    (~IsNone(a_out) /\ NumMuestras(a_in.datos) >= 2 /\ a_in.campo \in CamposSet) =>
        /\ a_out[1].hay_tendencia <=>
              (\/ RatGE(RatAbs(a_out[1].variacion), a_in.umbral)
               \/ RatGE(a_out[1].mensaje.variacion_maxima, a_in.umbral))
        /\ (/\ a_in.datos = Some(<<DocSerie(0, 100), DocSerie(60, 100), DocSerie(120, 103)>>)
            /\ a_in.umbral = RatInt(2))
              => (a_out[1].variacion = RatInt(3) /\ a_out[1].hay_tendencia)

C7_Witness ==
    /\ ~IsNone(a_out)
    /\ a_in.datos = Some(<<DocSerie(0, 100), DocSerie(60, 100), DocSerie(120, 103)>>)
    /\ a_in.umbral = RatInt(2)
    /\ a_in.campo = "bol2usdt"
    /\ a_out[1].variacion = RatInt(3)
    /\ a_out[1].mensaje.horas = 3
    /\ a_out[1].hay_tendencia

(* The call went past both early returns: the series was analysed. *)
Analizada == ~IsNone(a_out) /\ a_out[1].tupla = 4

(* The hourly means of the analysed series, and the sums of the normal     *)
(* equation of the line fitted to (i - 1, mean_i): sum of x * y, of y.     *)
MediasHorarias == stats_por_hora(a_in.datos[1], a_in.campo)

RECURSIVE SumaXY(_, _)
SumaXY(stats, i) ==
    IF i > Len(stats) THEN RatInt(0)
    ELSE RatAdd(RatMul(RatInt(i - 1), stats[i].mean), SumaXY(stats, i + 1))

RECURSIVE SumaY(_, _)
SumaY(stats, i) ==
    IF i > Len(stats) THEN RatInt(0) ELSE RatAdd(stats[i].mean, SumaY(stats, i + 1))

(* N * sum(x*y) - sum(x) * sum(y), and N * sum(x^2) - sum(x)^2 which for   *)
(* x = 0 .. N-1 is N^2 * (N^2 - 1) / 12.                                   *)
NumeradorMC(stats) ==
    LET N == Len(stats)
    IN  RatSub(RatMul(RatInt(N), SumaXY(stats, 1)),
               RatMul(RatInt((N * (N - 1)) \div 2), SumaY(stats, 1)))

DenominadorMC(stats) ==
    LET N == Len(stats) IN RatInt((N * N * (N * N - 1)) \div 12)

(* C13: with two or more hourly buckets the reported slope is the least-    *)
(* squares slope of (bucket index, bucket mean), up to a rounding residue   *)
(* where that slope is zero, and the direction is "alcista" when the slope  *)
(* is > 0 and "bajista" otherwise; with one bucket the slope is 0 and the   *)
(* direction "neutral".                                                     *)
C13_DireccionSiguePendiente ==
    Analizada =>
        LET m == a_out[1].mensaje
            stats == MediasHorarias
        IN  IF m.horas >= 2
            THEN /\ m.horas = Len(stats)
                 /\ IF RatIsZero(NumeradorMC(stats))
                    THEN RatGE(Rat(1, EscalaRuido), RatAbs(m.pendiente))
                    ELSE RatMul(m.pendiente, DenominadorMC(stats)) = NumeradorMC(stats)
                 /\ m.direccion_tendencia =
                        IF RatGT(m.pendiente, RatInt(0)) THEN "alcista" ELSE "bajista"
            ELSE /\ m.horas = 1
                 /\ m.pendiente = RatInt(0)
                 /\ m.direccion_tendencia = "neutral"

(* Two buckets whose means rise while the last sample is below the first. *)
C13_Witness ==
    /\ Analizada
    /\ a_in.datos = Some(<<DocSerie(0, 103), DocSerie(30, 100), DocSerie(60, 102)>>)
    /\ a_out[1].mensaje.horas = 2
    /\ a_out[1].mensaje.pendiente = Rat(1, 2)
    /\ a_out[1].mensaje.direccion_tendencia = "alcista"
    /\ RatGT(RatInt(0), a_out[1].variacion)

(* Every sample of the analysed series carries the same value of the field. *)
SeriePlana ==
    \A i \in DOMAIN a_in.datos[1] : \A j \in DOMAIN a_in.datos[1] :
        a_in.datos[1][i][a_in.campo] = a_in.datos[1][j][a_in.campo]

C16_AlertaSigueDireccion ==
    (Analizada /\ a_in.campo = "bol2usdt" /\ a_out[1].enviadas # <<>>) =>
        LET alerta == a_out[1].enviadas[1]
            direccion == a_out[1].mensaje.direccion_tendencia
        IN  \/ /\ direccion = "alcista"
               /\ alerta.trend_type = "ALCISTA"
               /\ alerta.recommendation = "Posible oportunidad de VENTA de USDT (precio alto)"
            \/ /\ direccion = "bajista"
               /\ alerta.trend_type = "BAJISTA"
               /\ alerta.recommendation = "Posible oportunidad de COMPRA de USDT (precio bajo)"

(* The mean of the standard deviations over every hourly bucket, a bucket  *)
(* of one sample counted with a deviation of 0.                            *)
VolatilidadDeTodas ==
    MediaDeRaices([i \in DOMAIN MediasHorarias |->
                      IF MediasHorarias[i].count = 1 THEN RatInt(0)
                      ELSE std_por_hora(a_in.datos[1], a_in.campo)[i].radicando],
                  Len(MediasHorarias))

(* Two means of the same square roots are the same number when they divide *)
(* by the same count, or when there is nothing to divide.                  *)
MismaMedia(a, b) ==
    /\ ~a.nan /\ ~b.nan
    /\ a.raices = b.raices
    /\ a.entre = b.entre \/ (a.raices = <<>> /\ a.entre > 0 /\ b.entre > 0)

(* C21: the reported average volatility is the mean of the per-bucket      *)
(* standard deviation over all hourly buckets, a bucket of a single sample *)
(* contributing 0; so it is 0 when every bucket holds one sample.          *)
C21_VolatilidadSobreTodas ==
    Analizada => MismaMedia(a_out[1].mensaje.volatilidad_promedio, VolatilidadDeTodas)

(* The absolute percentage variation from one hourly mean to the next (0   *)
(* from a mean of 0, as calcular_variacion_porcentual defines it).         *)
VariacionEntreHoras(stats, i) ==
    LET anterior == stats[i - 1].mean
        actual == stats[i].mean
    IN  IF RatIsZero(anterior) THEN RatInt(0)
        ELSE RatAbs(RatDiv(RatMul(RatSub(actual, anterior), RatInt(100)), anterior))

(* C22: the reported maximum variation between consecutive hours is the    *)
(* largest absolute percentage variation over the pairs of consecutive     *)
(* hourly buckets; it is 0 with fewer than 2 buckets and never negative.   *)
C22_MaximaEntreHorasConsecutivas ==
    Analizada =>
        LET maxima == a_out[1].mensaje.variacion_maxima
            stats == MediasHorarias
            N == Len(stats)
        IN  /\ RatGE(maxima, RatInt(0))
            /\ N < 2 => maxima = RatInt(0)
            /\ N >= 2 =>
                  /\ \E i \in 2 .. N : maxima = VariacionEntreHoras(stats, i)
                  /\ \A i \in 2 .. N : RatGE(maxima, VariacionEntreHoras(stats, i))

C22_Witness ==
    /\ Analizada
    /\ Len(MediasHorarias) = 3
    /\ RatGT(MediasHorarias[2].mean, MediasHorarias[3].mean)
    /\ a_out[1].mensaje.variacion_maxima = VariacionEntreHoras(MediasHorarias, 3)
    /\ RatGT(VariacionEntreHoras(MediasHorarias, 3), VariacionEntreHoras(MediasHorarias, 2))
    /\ RatGT(VariacionEntreHoras(MediasHorarias, 2), RatInt(0))

-----------------------------------------------------------------------------
(* SpecHoras: one call of detectar_tendencia_significativa on every series *)
(* of one sample per hour over 2 .. MaxHoras consecutive hours.            *)

MaxHoras == 4

ValoresHora == {100, 101, 103, 106}

(* The i-th sample falls in the i-th hour, at the hour or half past it. *)
SeriesHorarias ==
    UNION {{[i \in 1 .. n |-> DocSerie(MINUTOS_HORA * (i - 1) + m, v[i])] :
                v \in [1 .. n -> ValoresHora], m \in {0, 30}} :
           n \in 2 .. MaxHoras}

HorasInit ==
    /\ a_in \in [datos : {Some(s) : s \in SeriesHorarias},
                 campo : {"bol2usdt"},
                 umbral : {RatInt(2)},
                 notificar : {FALSE},
                 telegram : {"ok"},
                 ruido : Ruidos]
    /\ a_out = None
    /\ f_in = Idle /\ f_out = Idle /\ s_in = Idle /\ s_out = Idle
    /\ r_in = Idle /\ r_out = Idle
    /\ p_in = Idle /\ p_out = Idle
    /\ pc = "off" /\ store = <<>> /\ now = 0 /\ lastTick = Idle

SpecHoras == HorasInit /\ [][AnalyzeNext]_vars

UnaPorHora ==
    \A i \in DOMAIN a_in.datos[1] :
        Hora(a_in.datos[1][i].datetime)
            = Hora(a_in.datos[1][1].datetime) + MINUTOS_HORA * (i - 1)

EstrictamenteCreciente ==
    \A i \in 1 .. (Len(a_in.datos[1]) - 1) :
        a_in.datos[1][i][a_in.campo] < a_in.datos[1][i + 1][a_in.campo]

(* C15: a strictly increasing series of one sample per hour over three or   *)
(* more consecutive hours has slope > 0 and direction "alcista".            *)
C15_CrecienteEsAlcista ==
    (Analizada /\ Len(a_in.datos[1]) >= 3 /\ UnaPorHora /\ EstrictamenteCreciente) =>
        /\ a_out[1].mensaje.horas = Len(a_in.datos[1])
        /\ RatGT(a_out[1].mensaje.pendiente, RatInt(0))
        /\ a_out[1].mensaje.direccion_tendencia = "alcista"

C15_Witness ==
    /\ Analizada
    /\ Len(a_in.datos[1]) = 4
    /\ UnaPorHora
    /\ EstrictamenteCreciente
    /\ a_out[1].mensaje.horas = 4
    /\ a_out[1].mensaje.direccion_tendencia = "alcista"

-----------------------------------------------------------------------------
(* SpecRun: one run of analizar_tendencias over every collection of up to  *)
(* MaxDocs documents that tarea_programada can have stored.                *)

MaxDocs == 2

(* The document obtener_datos_cripto builds from a Bitcoin price (in       *)
(* thousandths) and the two price averages.                                *)
Documento(t, btc, bol, usdt) ==
    [datetime |-> t, btc2usd |-> RedondearBtc(btc), bol2usdt |-> bol,
     usdt2bol |-> usdt, bol2btc |-> CalcularBobBtc(bol, btc)]

DocsRun ==
    {Documento(t, k[1], k[2], k[3]) :
        t \in {0, 60},
        k \in {<<50004, 100, 100>>, <<50004, 103, 100>>, <<50004, 100, 103>>, <<0, 100, 100>>}}

Colecciones == UNION {{s \in [1 .. n -> DocsRun] : EnOrden(s)} : n \in 0 .. MaxDocs}

(* The notifier is reached only under notificar and only for a window     *)
(* holding two hours of documents (ahora = 60 here), and nothing after the *)
(* read is reached when the read raises: every state of the notifier is    *)
(* drawn for the runs that can reach it, a delivering one for the others.  *)
RunInit ==
    /\ r_in \in [coleccion : Colecciones,
                 ahora : {60},
                 notificar : {TRUE},
                 mongo : {"ok"},
                 telegram : [CamposSet -> EstadosTelegram],
                 ruido : Ruidos]
              \cup [coleccion : Colecciones,
                    ahora : {60, 300},
                    notificar : BOOLEAN,
                    mongo : {"ok"},
                    telegram : {[c \in CamposSet |-> "ok"]},
                    ruido : Ruidos]
              \cup [coleccion : Colecciones,
                    ahora : {60},
                    notificar : BOOLEAN,
                    mongo : {"raise"},
                    telegram : {[c \in CamposSet |-> "ok"]},
                    ruido : {0}]
    /\ r_out = None
    /\ f_in = Idle /\ f_out = Idle /\ s_in = Idle /\ s_out = Idle
    /\ a_in = Idle /\ a_out = Idle
    /\ p_in = Idle /\ p_out = Idle
    /\ pc = "off" /\ store = <<>> /\ now = 0 /\ lastTick = Idle

RunCall ==
    /\ IsNone(r_out)
    /\ r_out' = Some(analizar_tendencias(r_in.coleccion, r_in.ahora, r_in.notificar,
                                         r_in.mongo, r_in.telegram, r_in.ruido))
    /\ UNCHANGED <<r_in, f_in, f_out, s_in, s_out, a_in, a_out, p_in, p_out,
                 pc, store, now, lastTick>>

RunNext == RunCall

SpecRun == RunInit /\ [][RunNext]_vars

(* C8: in a run of analizar_tendencias, send_trend_alert is called at most  *)
(* once for each field, and only for a field whose verdict is significant   *)
(* and only when notificar is true.                                         *)
C8_AlertaSoloSignificativa ==
    ~IsNone(r_out) =>
        \A c \in CamposSet :
            /\ Len(r_out[1].enviadas[c]) <= 1
            /\ Len(r_out[1].enviadas[c]) = 1 =>
                  (r_in.notificar /\ r_out[1].resultados[c].hay_tendencia)

C8_Witness ==
    /\ ~IsNone(r_out)
    /\ r_out[1].analizados = CAMPOS
    /\ Len(r_out[1].enviadas["bol2usdt"]) = 1
    /\ r_out[1].resultados["bol2usdt"].hay_tendencia
    /\ ~r_out[1].resultados["usdt2bol"].hay_tendencia
    /\ r_out[1].enviadas["usdt2bol"] = <<>>

(* The same run with a notifier that delivers every alert. *)
CorridaSinFallos ==
    analizar_tendencias(r_in.coleccion, r_in.ahora, r_in.notificar, r_in.mongo,
                        [c \in CamposSet |-> "ok"], r_in.ruido)

(* A field whose alert was due in this run (sin_fallos is the same run     *)
(* with a delivering notifier) and whose notifier fails.                   *)
NotificacionFallida(c, sin_fallos) ==
    /\ r_in.notificar
    /\ r_in.telegram[c] # "ok"
    /\ sin_fallos.resultados[c].hay_tendencia

(* C9: a notification failure (the notifier returns failure or raises) is   *)
(* neither retried nor re-raised: the run's verdicts are those of the same  *)
(* run with a notifier that succeeds, no field's alert is sent twice, and   *)
(* after a failed notification the run still analyses every field and ends  *)
(* without an exception.                                                    *)
C9_FalloDeNotificacionInocuo ==
    ~IsNone(r_out) =>
        LET sin_fallos == CorridaSinFallos
        IN  /\ r_out[1].resultados = sin_fallos.resultados
            /\ r_out[1].analizados = sin_fallos.analizados
            /\ r_out[1].raised = sin_fallos.raised
            /\ \A c \in CamposSet : Len(r_out[1].enviadas[c]) <= 1
            /\ (\E c \in CamposSet : NotificacionFallida(c, sin_fallos)) =>
                  (r_out[1].analizados = CAMPOS /\ ~r_out[1].raised)

C9_Witness ==
    /\ ~IsNone(r_out)
    /\ NotificacionFallida("bol2usdt", CorridaSinFallos)
    /\ r_in.telegram["bol2usdt"] = "raise"
    /\ r_in.telegram["btc2usd"] = "false"
    /\ r_out[1].analizados = CAMPOS
    /\ r_out[1].resultados["btc2usd"].hay_tendencia
    /\ Len(r_out[1].enviadas["btc2usd"]) = 1
    /\ ~r_out[1].raised

(* The fields whose alerts carry a recommendation (lines 209-226). *)
ConRecomendacion == {"bol2usdt", "btc2usd"}

(* C23: only bol2usdt and btc2usd have recommendation entries: an alert     *)
(* carries a recommendation exactly when its field is one of the two, and   *)
(* so does the stored detail of a significant verdict.  A significant       *)
(* verdict on usdt2bol, with notificar and a notifier that can be obtained, *)
(* still dispatches one alert, labelled BOB/USDT, whose recommendation is   *)
(* empty.                                                                   *)
C23_SinRecomendacionParaVenta ==
    ~IsNone(r_out) =>
        /\ \A c \in CamposSet :
              /\ \A i \in DOMAIN r_out[1].enviadas[c] :
                    r_out[1].enviadas[c][i].recommendation # "" <=> c \in ConRecomendacion
              /\ ~IsNone(r_out[1].resultados[c].detalles) =>
                    (r_out[1].resultados[c].detalles[1].recommendation # ""
                        <=> (r_out[1].resultados[c].hay_tendencia /\ c \in ConRecomendacion))
        /\ (/\ r_out[1].resultados["usdt2bol"].hay_tendencia
            /\ r_in.notificar
            /\ r_in.telegram["usdt2bol"] # "init_raise") =>
                /\ Len(r_out[1].enviadas["usdt2bol"]) = 1
                /\ r_out[1].enviadas["usdt2bol"][1].asset = "BOB/USDT"
                /\ r_out[1].enviadas["usdt2bol"][1].recommendation = ""

C23_Witness ==
    /\ ~IsNone(r_out)
    /\ r_out[1].analizados = CAMPOS
    /\ r_out[1].resultados["usdt2bol"].hay_tendencia
    /\ Len(r_out[1].enviadas["usdt2bol"]) = 1
    /\ r_out[1].enviadas["usdt2bol"][1].asset = "BOB/USDT"
    /\ r_out[1].enviadas["usdt2bol"][1].recommendation = ""
    /\ Len(r_out[1].enviadas["bol2usdt"]) = 1
    /\ r_out[1].enviadas["bol2usdt"][1].recommendation # ""

-----------------------------------------------------------------------------
(* SpecVariacion: one call of calcular_variacion_porcentual on every pair   *)
(* of values n/2, n in -MaxValor .. MaxValor.                               *)

MaxValor == 6

Medios == {Rat(n, 2) : n \in (0 - MaxValor) .. MaxValor}

VariacionInit ==
    /\ p_in \in [valor_inicial : Medios, valor_final : Medios]
    /\ p_out = None
    /\ f_in = Idle /\ f_out = Idle /\ s_in = Idle /\ s_out = Idle
    /\ a_in = Idle /\ a_out = Idle /\ r_in = Idle /\ r_out = Idle
    /\ pc = "off" /\ store = <<>> /\ now = 0 /\ lastTick = Idle

VariacionCall ==
    /\ IsNone(p_out)
    /\ p_out' = Some(calcular_variacion_porcentual(p_in.valor_inicial, p_in.valor_final))
    /\ UNCHANGED <<p_in, f_in, f_out, s_in, s_out, a_in, a_out, r_in, r_out,
                   pc, store, now, lastTick>>

VariacionNext == VariacionCall

SpecVariacion == VariacionInit /\ [][VariacionNext]_vars

(* C12: for initial = a/da and final = b/db the result n/d satisfies        *)
(* n/d = (b/db - a/da) / (a/da) * 100 when a # 0, stated without division   *)
(* as n * a * db = 100 * (b * da - a * db) * d; and it is 0 when a = 0.     *)
C12_VariacionPorcentual ==
    ~IsNone(p_out) =>
        LET a == p_in.valor_inicial[1]
            da == p_in.valor_inicial[2]
            b == p_in.valor_final[1]
            db == p_in.valor_final[2]
            n == p_out[1][1]
            d == p_out[1][2]
        IN  /\ d > 0
            /\ IF a = 0 THEN n = 0
               ELSE n * a * db = 100 * (b * da - a * db) * d

C12_Witness ==
    /\ ~IsNone(p_out)
    /\ p_in.valor_inicial = Rat(-1, 2)
    /\ p_in.valor_final = Rat(1, 1)
    /\ p_out[1] = RatInt(-300)

-----------------------------------------------------------------------------
(* SpecPromedio: one call of calcular_precio_promedio on None and on every *)
(* frame of up to MaxLargo offers, for num_ofertas in 1 .. MaxNum.         *)

MaxLargo == 3

MaxNum == 5

(* 0 is the price given to an advertisement without one (line 89); 0.01,   *)
(* 10.00 and 20.00.                                                        *)
PreciosPromedio == {0, 1, 1000, 2000}

Marcos == UNION {[1 .. n -> {[precio |-> p] : p \in PreciosPromedio}] : n \in 0 .. MaxLargo}

PromedioInit ==
    /\ p_in \in [df : {None} \cup {Some(m) : m \in Marcos}, num_ofertas : 1 .. MaxNum]
    /\ p_out = None
    /\ f_in = Idle /\ f_out = Idle /\ s_in = Idle /\ s_out = Idle
    /\ a_in = Idle /\ a_out = Idle /\ r_in = Idle /\ r_out = Idle
    /\ pc = "off" /\ store = <<>> /\ now = 0 /\ lastTick = Idle

PromedioCall ==
    /\ IsNone(p_out)
    /\ p_out' = Some(calcular_precio_promedio(p_in.df, p_in.num_ofertas))
    /\ UNCHANGED <<p_in, f_in, f_out, s_in, s_out, a_in, a_out, r_in, r_out,
                   pc, store, now, lastTick>>

PromedioNext == PromedioCall

SpecPromedio == PromedioInit /\ [][PromedioNext]_vars

SinOfertas == IsNone(p_in.df) \/ Len(p_in.df[1]) = 0

(* The sum of the prices of the first k offers. *)
RECURSIVE SumaPrimeros(_, _)
SumaPrimeros(ofertas, k) ==
    IF k = 0 THEN 0 ELSE ofertas[k].precio + SumaPrimeros(ofertas, k - 1)

(* r, in hundredths, is the mean of the first min(n, len) prices to the    *)
(* nearest hundredth.                                                      *)
EsMediaRedondeada(r) ==
    LET k == Min(p_in.num_ofertas, Len(p_in.df[1]))
    IN  2 * Abs(r * k - SumaPrimeros(p_in.df[1], k)) <= k

(* C20 as stated: the result is the mean of the first min(n, len) prices,   *)
(* rounded to 2 decimals, and it is 0.0 if and only if the frame is empty   *)
(* or absent; prices 10 and 20 with n = 5 give 15.0.                        *)
C20_PromedioCeroSoloVacio ==
    ~IsNone(p_out) =>
        /\ (p_out[1] = 0) <=> SinOfertas
        /\ ~SinOfertas => EsMediaRedondeada(p_out[1])
        /\ (p_in.df = Some(<<[precio |-> 1000], [precio |-> 2000]>>) /\ p_in.num_ofertas = 5)
               => p_out[1] = 1500

(* C20 amended: the same, with 0.0 returned whenever the frame is empty or  *)
(* absent (and also for a frame whose rounded mean is 0.00).                *)
C20_PromedioRedondeado ==
    ~IsNone(p_out) =>
        /\ SinOfertas => p_out[1] = 0
        /\ ~SinOfertas => EsMediaRedondeada(p_out[1])
        /\ (p_in.df = Some(<<[precio |-> 1000], [precio |-> 2000]>>) /\ p_in.num_ofertas = 5)
               => p_out[1] = 1500

C20_Witness ==
    /\ ~IsNone(p_out)
    /\ p_in.df = Some(<<[precio |-> 1000], [precio |-> 2000], [precio |-> 1]>>)
    /\ p_in.num_ofertas = 2
    /\ p_out[1] = 1500

=============================================================================
